---- MODULE Spec2Model ----
(***************************************************************************)
(* Email verification API (server.js): the scoring engine verifyEmail and  *)
(* the two POST handlers /verify and /verify-bulk.                         *)
(*                                                                         *)
(* A JavaScript string is a sequence of one-character strings.  A JSON     *)
(* value of a request body is a record [type, str, num]: type is "string", *)
(* "number", "null" or "undefined" (the field is absent).                  *)
(***************************************************************************)
EXTENDS Integers, Sequences, FiniteSets, TLC

\* ------------------------------------------------------------------------
\* Bounds of the explored inputs
\* ------------------------------------------------------------------------
\* longest string enumerated exhaustively over Alphabet
MaxStrLen == 4
\* longest emails array enumerated exhaustively over EntryPool
MaxEmails == 3
\* a loop counter i that runs away below zero is followed this far
MaxRunaway == 3

\* ------------------------------------------------------------------------
\* JavaScript values and string primitives
\* ------------------------------------------------------------------------
JStr(s) == [type |-> "string", str |-> s, num |-> 0]
JNum(n) == [type |-> "number", str |-> <<>>, num |-> n]
JNull == [type |-> "null", str |-> <<>>, num |-> 0]
JUndef == [type |-> "undefined", str |-> <<>>, num |-> 0]

\* the value undefined where a string is expected (a[1] of a one-element array)
Undefined == <<"undefined">>

\* JavaScript truthiness: "", 0, null and undefined are falsy
Truthy(v) ==
  CASE v.type = "string" -> Len(v.str) > 0
    [] v.type = "number" -> v.num # 0
    [] OTHER -> FALSE

Min(a, b) == IF a < b THEN a ELSE b
Max(a, b) == IF a > b THEN a ELSE b

LowerSeq == <<"a","b","c","d","e","f","g","h","i","j","k","l","m",
              "n","o","p","q","r","s","t","u","v","w","x","y","z">>
UpperSeq == <<"A","B","C","D","E","F","G","H","I","J","K","L","M",
              "N","O","P","Q","R","S","T","U","V","W","X","Y","Z">>
Lower == {LowerSeq[k] : k \in 1..26}
Upper == {UpperSeq[k] : k \in 1..26}
Digit == {"0","1","2","3","4","5","6","7","8","9"}
AlNum == Lower \cup Upper \cup Digit
\* the grave accent character (U+0060), which has no TLA+ string literal
GraveAccent == "U+0060"
\* the character class of the local part: letters, digits, GraveAccent and
\* . ! # $ % & ' * + / = ? ^ _ { | } ~ -
LocalChar == AlNum \cup {".","!","#","$","%","&","'","*","+","/","=","?",
                         "^","_",GraveAccent,"{","|","}","~","-"}
\* the white space String.prototype.trim strips
WhiteSpace == {" ", "\t", "\n", "\r"}

ToLowerChar(c) ==
  IF c \in Upper THEN LowerSeq[CHOOSE k \in 1..26 : UpperSeq[k] = c] ELSE c
ToLowerCase(s) == [k \in 1..Len(s) |-> ToLowerChar(s[k])]

Trim(s) ==
  LET keep == {k \in 1..Len(s) : s[k] \notin WhiteSpace}
  IN  IF keep = {} THEN <<>>
      ELSE LET lo == CHOOSE k \in keep : \A j \in keep : k <= j
               hi == CHOOSE k \in keep : \A j \in keep : k >= j
           IN  SubSeq(s, lo, hi)

\* s.split(sep) for a one-character separator: always at least one part
RECURSIVE Split(_, _)
Split(s, sep) ==
  LET at == {k \in 1..Len(s) : s[k] = sep}
  IN  IF at = {} THEN <<s>>
      ELSE LET k == CHOOSE x \in at : \A y \in at : x <= y
           IN  <<SubSeq(s, 1, k - 1)>> \o Split(SubSeq(s, k + 1, Len(s)), sep)

\* array[idx] with a zero-based index: undefined past the end
At(parts, idx) == IF idx + 1 <= Len(parts) THEN parts[idx + 1] ELSE Undefined

StartsWith(s, p) == Len(p) <= Len(s) /\ SubSeq(s, 1, Len(p)) = p

\* ------------------------------------------------------------------------
\* Reference data
\* ------------------------------------------------------------------------
disposableDomains ==
  { <<"1","0","m","i","n","u","t","e","m","a","i","l",".","c","o","m">>,
    <<"1","0","m","i","n","u","t","e","m","a","i","l",".","n","e","t">>,
    <<"2","0","m","i","n","u","t","e","m","a","i","l",".","c","o","m">>,
    <<"g","u","e","r","r","i","l","l","a","m","a","i","l",".","c","o","m">>,
    <<"g","u","e","r","r","i","l","l","a","m","a","i","l",".","n","e","t">>,
    <<"g","u","e","r","r","i","l","l","a","m","a","i","l",".","b","i","z">>,
    <<"g","u","e","r","r","i","l","l","a","m","a","i","l",".","o","r","g">>,
    <<"s","h","a","r","k","l","a","s","e","r","s",".","c","o","m">>,
    <<"g","r","r",".","l","a">>,
    <<"m","a","i","l","i","n","a","t","o","r",".","c","o","m">>,
    <<"m","a","i","l","i","n","a","t","o","r",".","n","e","t">>,
    <<"m","a","i","l","i","n","a","t","o","r","2",".","c","o","m">>,
    <<"t","e","m","p","m","a","i","l",".","o","r","g">>,
    <<"t","e","m","p","-","m","a","i","l",".","o","r","g">>,
    <<"y","o","p","m","a","i","l",".","c","o","m">>,
    <<"y","o","p","m","a","i","l",".","f","r">>,
    <<"y","o","p","m","a","i","l",".","n","e","t">>,
    <<"t","h","r","o","w","a","w","a","y",".","e","m","a","i","l">>,
    <<"m","a","i","l","d","r","o","p",".","c","c">>,
    <<"m","a","i","l","n","e","s","i","a",".","c","o","m">>,
    <<"m","o","h","m","a","l",".","c","o","m">>,
    <<"t","r","a","s","h","m","a","i","l",".","c","o","m">>,
    <<"t","r","a","s","h","m","a","i","l",".","n","e","t">>,
    <<"s","p","a","m","g","o","u","r","m","e","t",".","c","o","m">>,
    <<"g","e","t","n","a","d","a",".","c","o","m">>,
    <<"m","y","t","r","a","s","h","m","a","i","l",".","c","o","m">>,
    <<"a","n","o","n","y","m","b","o","x",".","c","o","m">>,
    <<"h","i","d","e","m","a","i","l",".","d","e">>,
    <<"k","a","s","m","a","i","l",".","c","o","m">>,
    <<"n","o","b","u","l","k",".","c","o","m">>,
    <<"n","o","w","m","y","m","a","i","l",".","c","o","m">>,
    <<"o","b","j","e","c","t","m","a","i","l",".","c","o","m">>,
    <<"b","o","u","n",".","c","r">>,
    <<"d","e","a","d","a","d","d","r","e","s","s",".","c","o","m">>,
    <<"d","e","s","p","a","m","m","e","d",".","c","o","m">>,
    <<"d","o","n","t","s","e","n","d","m","e","s","p","a","m",".","d","e">>,
    <<"e","m","a","i","l","i","a","s",".","c","o","m">>,
    <<"l","i","f","e","b","y","f","o","o","d",".","c","o","m">>,
    <<"l","o","o","k","u","g","l","y",".","c","o","m">>,
    <<"m","i","n","t","e","m","a","i","l",".","c","o","m">>,
    <<"s","o","g","e","t","t","h","i","s",".","c","o","m">>,
    <<"s","p","a","m","h","e","r","e","i","s",".","c","o","m">>,
    <<"s","p","a","m","h","o","l","e",".","c","o","m">>,
    <<"s","p","a","m","i","f","y",".","c","o","m">>,
    <<"s","p","a","m","l",".","c","o","m">>,
    <<"s","p","a","m","t","h","i","s",".","c","o",".","u","k">>,
    <<"s","p","a","m","t","h","i","s","p","l","e","a","s","e",".","c","o","m">>,
    <<"s","u","r","e","m","a","i","l",".","i","n","f","o">>,
    <<"t","e","m","p","a","l","i","a","s",".","c","o","m">>,
    <<"t","e","m","p","o","r","a","r","y","-","e","m","a","i","l",".","n","e","t">>,
    <<"v","e","r","y","r","e","a","l","e","m","a","i","l",".","c","o","m">>,
    <<"z","u","m","p","u","l",".","c","o","m">>,
    <<"d","i","s","p","o","s","t","a","b","l","e",".","c","o","m">>,
    <<"f","a","k","e","m","a","i","l",".","f","r">>,
    <<"g","e","t","o","n","e","m","a","i","l",".","c","o","m">>,
    <<"h","a","r","a","k","i","r","i","m","a","i","l",".","c","o","m">>,
    <<"i","n","b","o","x",".","s","i">>,
    <<"m","a","i","l","c","a","t","c","h",".","c","o","m">>,
    <<"m","a","i","l","e","a","t","e","r",".","c","o","m">>,
    <<"m","a","i","l","e","x","p","i","r","e",".","c","o","m">>,
    <<"m","a","i","l","f","o","r","s","p","a","m",".","c","o","m">>,
    <<"m","a","i","l","i","m","a","t","e",".","c","o","m">>,
    <<"m","a","i","l","m","e",".","l","v">>,
    <<"m","a","i","l","m","e","t","r","a","s","h",".","c","o","m">>,
    <<"m","a","i","l","z","i","l","l","a",".","c","o","m">> }

roleBasedPrefixes ==
  { <<"a","d","m","i","n">>,
    <<"a","d","m","i","n","i","s","t","r","a","t","o","r">>,
    <<"i","n","f","o">>,
    <<"c","o","n","t","a","c","t">>,
    <<"s","u","p","p","o","r","t">>,
    <<"s","a","l","e","s">>,
    <<"m","a","r","k","e","t","i","n","g">>,
    <<"h","r">>,
    <<"h","e","l","p">>,
    <<"s","e","r","v","i","c","e">>,
    <<"o","f","f","i","c","e">>,
    <<"t","e","a","m">>,
    <<"g","r","o","u","p">>,
    <<"m","a","i","l">>,
    <<"e","m","a","i","l">>,
    <<"w","e","b","m","a","s","t","e","r">>,
    <<"p","o","s","t","m","a","s","t","e","r">>,
    <<"n","o","r","e","p","l","y">>,
    <<"n","o","-","r","e","p","l","y">>,
    <<"d","o","n","o","t","r","e","p","l","y">>,
    <<"d","o","-","n","o","t","-","r","e","p","l","y">>,
    <<"n","o","t","i","f","i","c","a","t","i","o","n","s">>,
    <<"n","o","t","i","f","i","c","a","t","i","o","n">>,
    <<"a","l","e","r","t","s">>,
    <<"a","u","t","o","m","a","t","i","c">>,
    <<"r","o","b","o","t">>,
    <<"s","y","s","t","e","m">>,
    <<"d","a","e","m","o","n">>,
    <<"m","a","n","a","g","e","r">>,
    <<"d","i","r","e","c","t","o","r">>,
    <<"p","r","e","s","i","d","e","n","t">> }

commonDomains ==
  << [correct |-> <<"g","m","a","i","l",".","c","o","m">>,
       typos |-> << <<"g","m","a","i",".","c","o","m">>,
                  <<"g","m","i","a","l",".","c","o","m">>,
                  <<"g","m","a","i","l",".","c","o">>,
                  <<"g","m","a","l",".","c","o","m">>,
                  <<"g","m","i","l",".","c","o","m">> >>],
     [correct |-> <<"y","a","h","o","o",".","c","o","m">>,
       typos |-> << <<"y","a","h","o",".","c","o","m">>,
                  <<"y","a","h","o","o",".","c","o">>,
                  <<"y","a","h","o","o","o",".","c","o","m">>,
                  <<"y","a","h","o","o",".","c","m">> >>],
     [correct |-> <<"h","o","t","m","a","i","l",".","c","o","m">>,
       typos |-> << <<"h","o","t","m","a","i",".","c","o","m">>,
                  <<"h","o","t","m","a","l",".","c","o","m">>,
                  <<"h","o","t","m","i","a","l",".","c","o","m">>,
                  <<"h","o","t","m","i","l",".","c","o","m">> >>],
     [correct |-> <<"o","u","t","l","o","o","k",".","c","o","m">>,
       typos |-> << <<"o","u","t","l","o","o","k",".","c","o">>,
                  <<"o","u","t","l","o","k",".","c","o","m">>,
                  <<"o","u","t","l","o","o",".","c","o","m">> >>],
     [correct |-> <<"a","o","l",".","c","o","m">>,
       typos |-> << <<"a","o","l",".","c","o">>,
                  <<"a","o",".","c","o","m">>,
                  <<"a","l","o",".","c","o","m">> >>] >>

\* ------------------------------------------------------------------------
\* The checks
\* ------------------------------------------------------------------------
MaxEmailLength == 320
\* the {0,61} between the first and the last character of a label
MaxLabelInner == 61

\* [a-zA-Z0-9](?:[a-zA-Z0-9-]{0,61}[a-zA-Z0-9])?
IsLabel(l) ==
  /\ Len(l) >= 1
  /\ Len(l) >= 2 => Len(l) - 2 <= MaxLabelInner
  /\ l[1] \in AlNum
  /\ l[Len(l)] \in AlNum
  /\ \A k \in 1..Len(l) : l[k] \in AlNum \cup {"-"}

\* ^[local]+@label(?:\.label)*$
RegexTest(email) ==
  \E k \in 1..Len(email) :
    /\ email[k] = "@"
    /\ k > 1
    /\ \A j \in 1..(k - 1) : email[j] \in LocalChar
    /\ LET labels == Split(SubSeq(email, k + 1, Len(email)), ".")
       IN  \A n \in 1..Len(labels) : IsLabel(labels[n])

validateEmailSyntax(email) == RegexTest(email) /\ Len(email) <= MaxEmailLength

\* x?.toLowerCase()
OptLowerCase(x) == IF x = Undefined THEN Undefined ELSE ToLowerCase(x)

isDisposableEmail(email) ==
  LET domain == OptLowerCase(At(Split(email, "@"), 1))
  IN  domain \in disposableDomains

isRoleBasedEmail(email) ==
  LET prefix == OptLowerCase(At(Split(email, "@"), 0))
  IN  \/ prefix \in roleBasedPrefixes
      \/ \E role \in roleBasedPrefixes :
           \/ StartsWith(prefix, role \o <<".">>)
           \/ StartsWith(prefix, role \o <<"_">>)
           \/ StartsWith(prefix, role \o <<"-">>)

Includes(list, x) == \E k \in 1..Len(list) : list[k] = x

\* the first entry of commonDomains whose typo list holds the domain
checkDomainTypos(domain) ==
  LET d == ToLowerCase(domain)
      hits == {k \in 1..Len(commonDomains) : Includes(commonDomains[k].typos, d)}
  IN  IF hits = {} THEN [hasTypo |-> FALSE, suggestion |-> Undefined]
      ELSE [hasTypo |-> TRUE,
            suggestion |-> commonDomains[CHOOSE k \in hits : \A j \in hits : k <= j].correct]

\* /^[a-z]+\.[a-z]+$/
FirstDotLast(s) ==
  \E k \in 2..(Len(s) - 1) :
    /\ s[k] = "."
    /\ \A j \in 1..Len(s) : j # k => s[j] \in Lower
\* /^[a-z]\.[a-z]+$/
InitialDotLast(s) ==
  /\ Len(s) >= 3
  /\ s[1] \in Lower
  /\ s[2] = "."
  /\ \A j \in 3..Len(s) : s[j] \in Lower
\* /^[a-z]+[a-z]$/
FirstLast(s) == Len(s) >= 2 /\ \A j \in 1..Len(s) : s[j] \in Lower

IsProfessional(localPart) ==
  LET l == ToLowerCase(localPart)
  IN  FirstDotLast(l) \/ InitialDotLast(l) \/ FirstLast(l)

\* ------------------------------------------------------------------------
\* verifyEmail
\* ------------------------------------------------------------------------
SyntaxPoints == 25
DisposablePenalty == -30
DisposablePoints == 15
RoleBasedPenalty == -15
RoleBasedPoints == 10
TypoPenalty == -10
TypoPoints == 5
ProfessionalPoints == 10
BaseScore == 50
ValidThreshold == 70
RiskyThreshold == 40

StrInvalidSyntax == "Invalid email syntax"
StrDisposable == "Disposable email provider"
StrValid == "Email appears valid and deliverable"
StrRoleBased == "Role-based email address"
StrUncertain == "Email deliverability uncertain"
StrLowQuality == "Email appears invalid or low quality"

SyntaxCheck(e) ==
  [valid |-> validateEmailSyntax(e),
   score |-> IF validateEmailSyntax(e) THEN SyntaxPoints ELSE 0]
DisposableCheck(e) ==
  [isDisposable |-> isDisposableEmail(e),
   score |-> IF isDisposableEmail(e) THEN DisposablePenalty ELSE DisposablePoints]
\* variant: a role-based address loses 45 points
RoleBasedCheckHeavy(e) ==
  [isRoleBased |-> isRoleBasedEmail(e),
   score |-> IF isRoleBasedEmail(e) THEN -45 ELSE RoleBasedPoints]

RoleBasedCheck(e) ==
  [isRoleBased |-> isRoleBasedEmail(e),
   score |-> IF isRoleBasedEmail(e) THEN RoleBasedPenalty ELSE RoleBasedPoints]
TyposCheck(domain) ==
  LET t == checkDomainTypos(domain)
  IN  [hasTypo |-> t.hasTypo, suggestion |-> t.suggestion,
       score |-> IF t.hasTypo THEN TypoPenalty ELSE TypoPoints]
ProfessionalCheck(localPart) ==
  [isProfessional |-> IsProfessional(localPart),
   score |-> IF IsProfessional(localPart) THEN ProfessionalPoints ELSE 0]

\* Object.values(checks).reduce((sum, check) => sum + (check.score || 0), 0)
RECURSIVE SumScores(_, _)
SumScores(checks, names) ==
  IF names = {} THEN 0
  ELSE LET n == CHOOSE x \in names : TRUE
       IN  checks[n].score + SumScores(checks, names \ {n})
TotalScore(checks) == SumScores(checks, DOMAIN checks)

\* variant: no upper clamp
ClampScoreNoCeiling(totalScore) == Max(0, totalScore + BaseScore)

\* Math.max(0, Math.min(100, totalScore + 50))
ClampScore(totalScore) == Max(0, Min(100, totalScore + BaseScore))

\* variant: the score is tested before the disposable flag
VerdictScoreFirst(checks, score) ==
  IF score >= ValidThreshold
    THEN [status |-> "valid", reason |-> StrValid, deliverable |-> "yes"]
  ELSE IF checks.disposable.isDisposable
    THEN [status |-> "risky", reason |-> StrDisposable, deliverable |-> "risky"]
  ELSE IF score >= RiskyThreshold
    THEN [status |-> "risky",
          reason |-> IF checks.roleBased.isRoleBased THEN StrRoleBased
                     ELSE StrUncertain,
          deliverable |-> "risky"]
  ELSE [status |-> "invalid", reason |-> StrLowQuality, deliverable |-> "no"]

\* variant: the two reasons of the [40,70) branch are swapped
VerdictReasonSwapped(checks, score) ==
  IF checks.disposable.isDisposable
    THEN [status |-> "risky", reason |-> StrDisposable, deliverable |-> "risky"]
  ELSE IF score >= ValidThreshold
    THEN [status |-> "valid", reason |-> StrValid, deliverable |-> "yes"]
  ELSE IF score >= RiskyThreshold
    THEN [status |-> "risky",
          reason |-> IF checks.roleBased.isRoleBased THEN StrUncertain
                     ELSE StrRoleBased,
          deliverable |-> "risky"]
  ELSE [status |-> "invalid", reason |-> StrLowQuality, deliverable |-> "no"]

\* the if / else-if chain that sets status, reason and deliverable
Verdict(checks, score) ==
  IF checks.disposable.isDisposable
    THEN [status |-> "risky", reason |-> StrDisposable, deliverable |-> "risky"]
  ELSE IF score >= ValidThreshold
    THEN [status |-> "valid", reason |-> StrValid, deliverable |-> "yes"]
  ELSE IF score >= RiskyThreshold
    THEN [status |-> "risky",
          reason |-> IF checks.roleBased.isRoleBased THEN StrRoleBased
                     ELSE StrUncertain,
          deliverable |-> "risky"]
  ELSE [status |-> "invalid", reason |-> StrLowQuality, deliverable |-> "no"]

\* The settled promise of verifyEmail(email): kind "value" with the result
\* object, kind "null" for a blank string, kind "throw" when email.trim is
\* not callable (any value that is not a string).  The timestamp is left out.
NoResult ==
  [email |-> <<>>, localPart |-> <<>>, domain |-> Undefined,
   checks |-> [syntax |-> [valid |-> FALSE, score |-> 0]],
   score |-> 0, status |-> "", reason |-> "", deliverable |-> ""]

\* variant: the early return keeps the base score
InvalidSyntaxResultUnforced(trimmedEmail, localPart, domain, syntax) ==
  [email |-> trimmedEmail, localPart |-> localPart, domain |-> domain,
   checks |-> [syntax |-> syntax],
   score |-> BaseScore, status |-> "invalid",
   reason |-> StrInvalidSyntax, deliverable |-> "no"]

\* the early return of a result whose syntax check failed
InvalidSyntaxResult(trimmedEmail, localPart, domain, syntax) ==
  [email |-> trimmedEmail, localPart |-> localPart, domain |-> domain,
   checks |-> [syntax |-> syntax],
   score |-> 0, status |-> "invalid",
   reason |-> StrInvalidSyntax, deliverable |-> "no"]

verifyEmail(email) ==
  IF email.type # "string" THEN [kind |-> "throw", result |-> NoResult]
  ELSE
    LET trimmedEmail == ToLowerCase(Trim(email.str))
        parts == Split(trimmedEmail, "@")
        localPart == At(parts, 0)
        domain == At(parts, 1)
        syntax == SyntaxCheck(trimmedEmail)
    IN  IF Len(trimmedEmail) = 0 THEN [kind |-> "null", result |-> NoResult]
        ELSE IF ~syntax.valid THEN
          [kind |-> "value",
           result |-> InvalidSyntaxResult(trimmedEmail, localPart, domain, syntax)]
        ELSE
          LET checks == [syntax |-> syntax,
                         disposable |-> DisposableCheck(trimmedEmail),
                         roleBased |-> RoleBasedCheck(trimmedEmail),
                         typos |-> TyposCheck(domain),
                         professional |-> ProfessionalCheck(localPart)]
              score == ClampScore(TotalScore(checks))
              v == Verdict(checks, score)
          IN  [kind |-> "value",
               result |-> [email |-> trimmedEmail, localPart |-> localPart,
                           domain |-> domain, checks |-> checks,
                           score |-> score, status |-> v.status,
                           reason |-> v.reason, deliverable |-> v.deliverable]]

\* ------------------------------------------------------------------------
\* Request inputs
\* ------------------------------------------------------------------------
\* local parts: "John.Doe", "admin", "no-reply", "user1", "support.team", "a b", ""
SampleLocals ==
  { <<"J","o","h","n",".","D","o","e">>,
    <<"a","d","m","i","n">>,
    <<"n","o","-","r","e","p","l","y">>,
    <<"u","s","e","r","1">>,
    <<"s","u","p","p","o","r","t",".","t","e","a","m">>,
    <<"a"," ","b">>,
    <<>> }
\* domains: "gmail.com", "Mailinator.com", "gmial.com", "example.com", "grr.la", "-bad.com", "mailinator.com@x"
SampleDomains ==
  { <<"g","m","a","i","l",".","c","o","m">>,
    <<"M","a","i","l","i","n","a","t","o","r",".","c","o","m">>,
    <<"g","m","i","a","l",".","c","o","m">>,
    <<"e","x","a","m","p","l","e",".","c","o","m">>,
    <<"g","r","r",".","l","a">>,
    <<"-","b","a","d",".","c","o","m">>,
    <<"m","a","i","l","i","n","a","t","o","r",".","c","o","m","@","x">> }
\* "john.doe@gmail.com"
sJohnGmail == <<"j","o","h","n",".","d","o","e","@","g","m","a","i","l",".","c","o","m">>
\* " \tJohn.Doe@Gmail.COM "
sPaddedJohn == <<" ","\t","J","o","h","n",".","D","o","e","@","G","m","a","i","l",".","C","O","M"," ">>
\* "test@mailinator.com"
sTestMailinator == <<"t","e","s","t","@","m","a","i","l","i","n","a","t","o","r",".","c","o","m">>
\* "admin@example.com"
sAdminExample == <<"a","d","m","i","n","@","e","x","a","m","p","l","e",".","c","o","m">>
\* "user@gmial.com"
sUserGmial == <<"u","s","e","r","@","g","m","i","a","l",".","c","o","m">>
\* "admin-x@gmial.com"
sAdminXGmial == <<"a","d","m","i","n","-","x","@","g","m","i","a","l",".","c","o","m">>
\* "a b@mailinator.com"
sSpaceMailinator == <<"a"," ","b","@","m","a","i","l","i","n","a","t","o","r",".","c","o","m">>
\* "mailinator.com"
sNoAt == <<"m","a","i","l","i","n","a","t","o","r",".","c","o","m">>
\* "  "
sBlank == <<" "," ">>
\* 319 letters, "@b": 321 characters that match the regex
sTooLong == [k \in 1..319 |-> "a"] \o <<"@","b">>
\* "a@", then a label of 63 letters, and the same with 64 letters
sLabel63 == <<"a","@">> \o [k \in 1..63 |-> "b"]
sLabel64 == <<"a","@">> \o [k \in 1..64 |-> "b"]

Alphabet == {"a", "A", "@", ".", " ", "-"}
RECURSIVE StringsOfLen(_)
StringsOfLen(n) ==
  IF n = 0 THEN {<<>>}
  ELSE {Append(s, c) : s \in StringsOfLen(n - 1), c \in Alphabet}
ShortStrings == UNION {StringsOfLen(n) : n \in 0..MaxStrLen}

SampleStrings ==
  {l \o <<"@">> \o d : l \in SampleLocals, d \in SampleDomains}
    \cup {sJohnGmail, sPaddedJohn, sTestMailinator, sAdminExample, sUserGmial,
          sAdminXGmial, sSpaceMailinator, sNoAt, sBlank, sTooLong,
          sLabel63, sLabel64}

\* the email field of a POST /verify body
VerifyInputs ==
  {JStr(s) : s \in ShortStrings \cup SampleStrings}
    \cup {JNum(0), JNum(42), JNull, JUndef}

\* entries of the short emails arrays: valid, bad syntax, blank, not a string
EntryPool == {JStr(sJohnGmail), JStr(sSpaceMailinator), JStr(sBlank), JNum(42)}
RECURSIVE ArraysOfLen(_)
ArraysOfLen(n) ==
  IF n = 0 THEN {<<>>}
  ELSE {Append(a, e) : a \in ArraysOfLen(n - 1), e \in EntryPool}
ShortArrays == UNION {ArraysOfLen(n) : n \in 0..MaxEmails}

\* long arrays cycle through these strings
CycleSeq == <<JStr(sJohnGmail), JStr(sTestMailinator), JStr(sAdminXGmial),
              JStr(sBlank), JStr(sSpaceMailinator)>>
\* n entries; when faultAt is in 1..n that entry is a number
LongArray(n, faultAt) ==
  [k \in 1..n |-> IF k = faultAt THEN JNum(42)
                  ELSE CycleSeq[((k - 1) % Len(CycleSeq)) + 1]]
LongArrays == {LongArray(n, f) : n \in {21, 25}, f \in {0, 11}}
OversizedArray == [k \in 1..1001 |-> JStr(sJohnGmail)]

\* the emails field of a POST /verify-bulk body: an array or something else
EmailsInputs ==
  {[isArray |-> TRUE, items |-> a] :
      a \in ShortArrays \cup LongArrays \cup {OversizedArray}}
    \cup {[isArray |-> FALSE, items |-> <<>>]}

BatchSizeInputs == {JUndef, JNum(0), JNum(1), JNum(2), JNum(1000), JNum(-1)}
DelayInputs == {JUndef, JNum(0), JNum(1), JNum(200), JNum(-1)}

\* ------------------------------------------------------------------------
\* The request handlers
\* ------------------------------------------------------------------------
VARIABLES
  pc,         \* "idle", "loop", "await", "delay" or "done"
  route,      \* "", "verify" or "verify-bulk"
  email,      \* req.body.email of the /verify request
  options,    \* req.body.options of the bulk request
  emails,     \* the emails array of the bulk request
  batchSize,  \* effective chunk size
  delay,      \* effective inter-chunk delay, ms
  i,          \* loop counter of the chunk loop
  batch,      \* settled verifyEmail promises of the chunk being awaited
  results,    \* results accumulated so far
  chunkLens,  \* length of every slice taken so far
  timers,     \* duration of every inter-chunk timer armed so far
  response    \* what the handler sent

vars == <<pc, route, email, options, emails, batchSize, delay, i, batch, results, chunkLens,
          timers, response>>

MaxBulk == 1000
DefaultBatchSize == 10
BatchSizeCap == 20
DefaultDelay == 100
DelayFloor == 50

ZeroStats == [total |-> 0, valid |-> 0, invalid |-> 0, risky |-> 0, avgScore |-> 0]
NoResponse ==
  [status |-> 0, error |-> "", body |-> [kind |-> "null", result |-> NoResult],
   results |-> <<>>, stats |-> ZeroStats, processed |-> 0]

\* res.status(code).json({ error })
ErrorResponse(code, msg) == [NoResponse EXCEPT !.status = code, !.error = msg]

\* Array.prototype.slice(start, end): negative indexes count from the end
SliceIndex(len, k) == IF k < 0 THEN Max(len + k, 0) ELSE Min(k, len)
Slice(arr, start, end) ==
  LET from == SliceIndex(Len(arr), start)
      to == SliceIndex(Len(arr), end)
  IN  IF to <= from THEN <<>> ELSE SubSeq(arr, from + 1, to)

\* batchResults.filter(r => r !== null)
RECURSIVE NonNull(_)
NonNull(outcomes) ==
  IF outcomes = <<>> THEN <<>>
  ELSE IF Head(outcomes).kind = "null" THEN NonNull(Tail(outcomes))
  ELSE <<Head(outcomes).result>> \o NonNull(Tail(outcomes))

CountStatus(rs, st) == Cardinality({k \in 1..Len(rs) : rs[k].status = st})
RECURSIVE SumOfScores(_)
SumOfScores(rs) == IF rs = <<>> THEN 0 ELSE Head(rs).score + SumOfScores(Tail(rs))
\* Math.round(a / b) for a >= 0, b > 0
RoundDiv(a, b) == (2 * a + b) \div (2 * b)
Stats(rs) ==
  [total |-> Len(rs),
   valid |-> CountStatus(rs, "valid"),
   invalid |-> CountStatus(rs, "invalid"),
   risky |-> CountStatus(rs, "risky"),
   avgScore |-> IF Len(rs) > 0 THEN RoundDiv(SumOfScores(rs), Len(rs)) ELSE 0]

\* variant: the supplied batch size is not capped
EffectiveBatchSizeUncapped(opt) ==
  IF Truthy(opt) THEN opt.num ELSE DefaultBatchSize

\* Math.min(options.batchSize || 10, 20)
EffectiveBatchSize(opt) ==
  Min(IF Truthy(opt) THEN opt.num ELSE DefaultBatchSize, BatchSizeCap)
\* Math.max(options.delay || 100, 50)
EffectiveDelay(opt) ==
  Max(IF Truthy(opt) THEN opt.num ELSE DefaultDelay, DelayFloor)

Init ==
  /\ pc = "idle"
  /\ route = ""
  /\ email = JUndef
  /\ options = [batchSize |-> JUndef, delay |-> JUndef]
  /\ emails = <<>>
  /\ batchSize = 0
  /\ delay = 0
  /\ i = 0
  /\ batch = <<>>
  /\ results = <<>>
  /\ chunkLens = <<>>
  /\ timers = <<>>
  /\ response = NoResponse

\* POST /verify
PostVerify(e) ==
  /\ pc = "idle"
  /\ pc' = "done"
  /\ route' = "verify"
  /\ email' = e
  /\ response' =
       IF ~Truthy(e) THEN ErrorResponse(400, "Email is required")
       ELSE LET o == verifyEmail(e)
            IN  IF o.kind = "throw" THEN ErrorResponse(500, "Internal server error")
                ELSE [NoResponse EXCEPT !.status = 200, !.body = o]
  /\ UNCHANGED <<options, emails, batchSize, delay, i, batch, results,
                 chunkLens, timers>>

\* POST /verify-bulk, up to the for loop
PostVerifyBulk(body, optBatchSize, optDelay) ==
  /\ pc = "idle"
  /\ route' = "verify-bulk"
  /\ options' = [batchSize |-> optBatchSize, delay |-> optDelay]
  /\ IF ~body.isArray \/ Len(body.items) = 0
       THEN /\ response' = ErrorResponse(400, "Emails array is required")
            /\ pc' = "done"
            /\ UNCHANGED <<emails, batchSize, delay>>
     ELSE IF Len(body.items) > MaxBulk
       THEN /\ response' = ErrorResponse(400, "Maximum 1000 emails per request")
            /\ pc' = "done"
            /\ UNCHANGED <<emails, batchSize, delay>>
     ELSE /\ emails' = body.items
          /\ batchSize' = EffectiveBatchSize(optBatchSize)
          /\ delay' = EffectiveDelay(optDelay)
          /\ pc' = "loop"
          /\ UNCHANGED response
  /\ UNCHANGED <<email, i, batch, results, chunkLens, timers>>

\* loop test passes: slice the chunk, call verifyEmail on each entry,
\* suspend on Promise.all
ChunkStart ==
  /\ pc = "loop"
  /\ i < Len(emails)
  /\ i > -MaxRunaway
  /\ LET chunk == Slice(emails, i, i + batchSize)
     IN  /\ batch' = [k \in 1..Len(chunk) |-> verifyEmail(chunk[k])]
         /\ chunkLens' = Append(chunkLens, Len(chunk))
  /\ pc' = "await"
  /\ UNCHANGED <<route, email, options, emails, batchSize, delay, i, results, timers, response>>

\* Promise.all fulfils: push the non-null results, then arm the timer or
\* go on to the next loop test
ChunkResolve ==
  /\ pc = "await"
  /\ \A k \in 1..Len(batch) : batch[k].kind # "throw"
  /\ results' = results \o NonNull(batch)
  /\ batch' = <<>>
  /\ IF i + batchSize < Len(emails)
       THEN /\ timers' = Append(timers, delay)
            /\ pc' = "delay"
            /\ UNCHANGED i
       ELSE /\ i' = i + batchSize
            /\ pc' = "loop"
            /\ UNCHANGED timers
  /\ UNCHANGED <<route, email, options, emails, batchSize, delay, chunkLens, response>>

\* Promise.all rejects: the await throws into the catch block
ChunkReject ==
  /\ pc = "await"
  /\ \E k \in 1..Len(batch) : batch[k].kind = "throw"
  /\ response' = ErrorResponse(500, "Internal server error")
  /\ batch' = <<>>
  /\ pc' = "done"
  /\ UNCHANGED <<route, email, options, emails, batchSize, delay, i, results, chunkLens, timers>>

\* the timer fires: i += batchSize
DelayElapsed ==
  /\ pc = "delay"
  /\ i' = i + batchSize
  /\ pc' = "loop"
  /\ UNCHANGED <<route, email, options, emails, batchSize, delay, batch, results, chunkLens,
                 timers, response>>

\* loop test fails: build the stats and send the response
Respond ==
  /\ pc = "loop"
  /\ ~(i < Len(emails))
  /\ response' = [NoResponse EXCEPT !.status = 200, !.results = results,
                                    !.stats = Stats(results),
                                    !.processed = Len(results)]
  /\ pc' = "done"
  /\ UNCHANGED <<route, email, options, emails, batchSize, delay, i, batch, results, chunkLens,
                 timers>>

Next ==
  \/ \E e \in VerifyInputs : PostVerify(e)
  \/ \E body \in EmailsInputs, b \in BatchSizeInputs, d \in DelayInputs :
       PostVerifyBulk(body, b, d)
  \/ ChunkStart
  \/ ChunkResolve
  \/ ChunkReject
  \/ DelayElapsed
  \/ Respond

Spec == Init /\ [][Next]_vars

\* ------------------------------------------------------------------------
\* Properties of verifyEmail, read off the response to POST /verify
\* ------------------------------------------------------------------------
\* the input as verifyEmail normalizes it
Normalized == ToLowerCase(Trim(email.str))
\* POST /verify was answered for a string that is not blank
VerifiedNonBlank ==
  /\ pc = "done"
  /\ route = "verify"
  /\ email.type = "string"
  /\ Len(Normalized) > 0
SyntaxOk == validateEmailSyntax(Normalized)
\* the part after the first "@" of the normalized input
InputDomain == At(Split(Normalized, "@"), 1)
Returned == response.status = 200 /\ response.body.kind = "value"
Result == response.body.result

\* C1: a non-blank input whose normalized string fails the syntax check gets
\* score 0, status "invalid", deliverable "no", reason "Invalid email syntax"
\* and a checks mapping that holds the syntax entry only.
C1_InvalidSyntaxResult ==
  (VerifiedNonBlank /\ ~SyntaxOk) =>
    /\ Returned
    /\ Result.score = 0
    /\ Result.status = "invalid"
    /\ Result.deliverable = "no"
    /\ Result.reason = "Invalid email syntax"
    /\ DOMAIN Result.checks = {"syntax"}
    /\ Result.checks.syntax.valid = FALSE

\* C1 witness: the regex matches but the string is longer than 320 characters
C1_Witness ==
  /\ VerifiedNonBlank
  /\ RegexTest(Normalized)
  /\ Len(Normalized) > MaxEmailLength
  /\ Result.status = "invalid"

\* C2 as stated: every address whose domain is in the disposable set gets
\* status "risky" and deliverable "risky".
C2_DisposableAlwaysRisky ==
  (VerifiedNonBlank /\ InputDomain \in disposableDomains) =>
    /\ Returned
    /\ Result.status = "risky"
    /\ Result.deliverable = "risky"

\* C2 amended: every syntactically valid address whose domain is in the
\* disposable set gets status "risky", deliverable "risky" and the reason
\* "Disposable email provider", whatever its score.
C2_ValidDisposableRisky ==
  (VerifiedNonBlank /\ SyntaxOk /\ InputDomain \in disposableDomains) =>
    /\ Returned
    /\ Result.status = "risky"
    /\ Result.deliverable = "risky"
    /\ Result.reason = "Disposable email provider"

\* C2 witness: a disposable address whose score alone would make it valid
C2_Witness ==
  /\ VerifiedNonBlank
  /\ SyntaxOk
  /\ InputDomain \in disposableDomains
  /\ Result.score >= 70
  /\ Result.status = "risky"

\* sum of the contributions of the checks a result holds, plus 50, clamped
ClampedSum(r) ==
  LET c == r.checks
      sum == IF DOMAIN c = {"syntax"} THEN c.syntax.score
             ELSE c.syntax.score + c.disposable.score + c.roleBased.score
                    + c.typos.score + c.professional.score
      raw == sum + 50
  IN  IF raw < 0 THEN 0 ELSE IF raw > 100 THEN 100 ELSE raw

\* C3 as stated: every result has a score in 0..100 that equals the sum of
\* the evaluated checks' contributions plus 50, clamped to 0..100.
C3_ScoreIsClampedSum ==
  (VerifiedNonBlank /\ Returned) =>
    /\ Result.score \in 0..100
    /\ Result.score = ClampedSum(Result)

\* C3 amended: every result has a score in 0..100; when the syntax check
\* passed the score equals the sum of the five checks' contributions plus 50,
\* clamped to 0..100, and when it failed the score is 0.
C3_ScoreInRange ==
  (VerifiedNonBlank /\ Returned) =>
    /\ Result.score \in 0..100
    /\ Result.checks.syntax.valid =>
         /\ DOMAIN Result.checks =
              {"syntax", "disposable", "roleBased", "typos", "professional"}
         /\ Result.score = ClampedSum(Result)
    /\ ~Result.checks.syntax.valid => Result.score = 0

\* C3 witness: the five contributions and the base add up to more than 100
C3_Witness ==
  /\ VerifiedNonBlank
  /\ Returned
  /\ Result.checks.syntax.valid
  /\ Result.checks.syntax.score + Result.checks.disposable.score
       + Result.checks.roleBased.score + Result.checks.typos.score
       + Result.checks.professional.score + 50 > 100
  /\ Result.score = 100

\* C4: for a valid-syntax address the triple (status, reason, deliverable)
\* is the one the priority table gives for the result's score and flags.
C4_VerdictTable ==
  (VerifiedNonBlank /\ SyntaxOk) =>
    /\ Returned
    /\ LET r == Result
           disp == r.checks.disposable.isDisposable
           role == r.checks.roleBased.isRoleBased
           triple == <<r.status, r.reason, r.deliverable>>
       IN  /\ disp =>
                triple = <<"risky", "Disposable email provider", "risky">>
           /\ (~disp /\ r.score >= 70) =>
                triple = <<"valid", "Email appears valid and deliverable", "yes">>
           /\ (~disp /\ r.score < 70 /\ r.score >= 40 /\ role) =>
                triple = <<"risky", "Role-based email address", "risky">>
           /\ (~disp /\ r.score < 70 /\ r.score >= 40 /\ ~role) =>
                triple = <<"risky", "Email deliverability uncertain", "risky">>
           /\ (~disp /\ r.score < 40) =>
                triple = <<"invalid", "Email appears invalid or low quality", "no">>

\* C4 witness: the third row of the table, a role-based address in [40,70)
C4_Witness ==
  /\ VerifiedNonBlank
  /\ SyntaxOk
  /\ ~Result.checks.disposable.isDisposable
  /\ Result.score < 70
  /\ Result.reason = "Role-based email address"

\* C10: the status is "invalid" exactly when the syntax check failed; a
\* valid-syntax address is "valid" or "risky", never gets the reasons
\* "Email appears invalid or low quality" or "Email deliverability
\* uncertain", and scores at least 70 unless disposable or role-based.
C10_InvalidIffSyntax ==
  VerifiedNonBlank =>
    /\ Returned
    /\ (Result.status = "invalid") <=> ~SyntaxOk
    /\ SyntaxOk => Result.status \in {"valid", "risky"}
    /\ Result.reason \notin {"Email appears invalid or low quality",
                             "Email deliverability uncertain"}
    /\ (SyntaxOk /\ ~Result.checks.disposable.isDisposable
          /\ ~Result.checks.roleBased.isRoleBased) => Result.score >= 70

\* C10 witness: a valid-syntax address that scores below 40 and is not invalid
C10_Witness ==
  /\ VerifiedNonBlank
  /\ SyntaxOk
  /\ Result.score < 40
  /\ Result.status = "risky"

\* ------------------------------------------------------------------------
\* Properties of POST /verify-bulk
\* ------------------------------------------------------------------------
\* the bulk request passed the two 400 checks
Accepted == route = "verify-bulk" /\ pc # "idle" /\ response.status # 400
\* an entry that is a string and is not blank after trimming
NonBlank(e) == e.type = "string" /\ Len(Trim(e.str)) > 0
\* an entry verifyEmail throws on
Faulty(e) == e.type # "string"

\* the results of the non-blank entries, in input order
RECURSIVE ExpectedResults(_)
ExpectedResults(es) ==
  IF es = <<>> THEN <<>>
  ELSE (IF NonBlank(Head(es)) THEN <<verifyEmail(Head(es)).result>> ELSE <<>>)
         \o ExpectedResults(Tail(es))

\* C5: a bulk request (chunk size at least 1) returns exactly one result per
\* non-blank entry, in input order, so that every result of a chunk precedes
\* those of the next chunk.
C5_OrderedComplete ==
  (Accepted /\ batchSize >= 1 /\ pc = "done") =>
    response.results = ExpectedResults(emails)

\* C6: when verifying one entry throws, the other entries of the request
\* (chunk size at least 1) are still verified and their results returned.
C6_FaultIsolated ==
  (/\ Accepted
   /\ batchSize >= 1
   /\ pc = "done"
   /\ \E k \in 1..Len(emails) : Faulty(emails[k])
   /\ \E k \in 1..Len(emails) : NonBlank(emails[k])) =>
    /\ response.status = 200
    /\ \A k \in 1..Len(emails) :
         NonBlank(emails[k]) =>
           \E j \in 1..Len(response.results) :
             response.results[j] = verifyEmail(emails[k]).result

\* C7: the request is cut into ceil(N / batchSize) consecutive chunks of
\* batchSize entries, the last one possibly shorter; a chunk starts only
\* after the timer armed behind the chunk before it has fired; one timer is
\* armed between two consecutive chunks and none after the last chunk.
C7_ChunksAndDelays ==
  Accepted =>
    LET n == Len(emails)
        c == Len(chunkLens)
    IN  /\ \A k \in 1..c :
             chunkLens[k] = Min(batchSize, n - (k - 1) * batchSize)
        /\ pc = "await" => Len(timers) = c - 1
        /\ pc = "delay" => Len(timers) = c
        /\ pc = "done" =>
             /\ c * batchSize >= n
             /\ (c - 1) * batchSize < n
             /\ Len(timers) = c - 1

C9_RunsToCompletion ==
  [][(Accepted /\ pc \in {"await", "delay"} /\ pc' = "loop") => i' > i]_vars
====
